---------------------------- MODULE Spec2Model ----------------------------
(***************************************************************************)
(* Model of calorie_tracker.py: the CalorieTracker run loop, the per-day   *)
(* JSON ledger file, the parsing of the estimator's free-text reply and    *)
(* the git pull/push collaborator.                                         *)
(*                                                                         *)
(* Representation of values.                                               *)
(*   text     a sequence of one-character strings                          *)
(*   float    an exact decimal [m |-> mantissa, k |-> fraction digits]     *)
(*            standing for m / 10^k, kept normalised (no trailing zero)    *)
(*   JSON     [null |-> TRUE], [num |-> text], [str |-> s],                *)
(*            [arr |-> sequence], [obj |-> record]                         *)
(*   Python   [none |-> TRUE], [float |-> decimal], [str |-> s],           *)
(*            [list |-> sequence], [dict |-> record]                       *)
(*   file     NoFile, [json |-> J] (a complete JSON document) or           *)
(*            [invalid |-> why] (bytes that json.load rejects)             *)
(***************************************************************************)
EXTENDS Integers, Sequences, FiniteSets, TLC

VARIABLES
    file,              \* tracker/<date>.json for every date: the bytes on disk
    today,             \* the calendar day datetime.now() reports
    clock,             \* the instant datetime.now() reports
    daily_limit,       \* self.daily_limit
    pc,                \* per run: the statement of run() it is at
    local,             \* per run: the local variables of run() and save_to_file
    out,               \* per run: the kinds of message printed so far
    exc,               \* per run: the exception the top-level handler caught
    appended,          \* history: per date, the entries save_to_file completed
    sequential,        \* history: every save so far ran alone and to its end
    file0,             \* history: the ledger files before the first run
    llm_response,      \* SpecParse: the reply handed to parse_nutritional_data
    parse_result       \* SpecParse: what parse_nutritional_data returned

run_vars == <<pc, local, out, exc>>

ledger_vars == <<file, today, clock, daily_limit, appended, sequential, file0>>

parse_vars == <<llm_response, parse_result>>

vars == <<ledger_vars, run_vars, parse_vars>>

---------------------------------------------------------------------------
(* Bounds *)

\* Longest estimator reply SpecParse enumerates.
MaxReplyLen == 9

\* Most food descriptions the run of Spec is given.
MaxItems == 3

\* Most food descriptions each of the two runs of SpecRace is given.
MaxRaceItems == 1

---------------------------------------------------------------------------
(* Characters, decimals and float() / repr() *)

Digits == {"0", "1", "2", "3", "4", "5", "6", "7", "8", "9"}

DigitVal(c) ==
    CASE c = "0" -> 0 [] c = "1" -> 1 [] c = "2" -> 2 [] c = "3" -> 3
      [] c = "4" -> 4 [] c = "5" -> 5 [] c = "6" -> 6 [] c = "7" -> 7
      [] c = "8" -> 8 [] c = "9" -> 9

DigitChar(d) ==
    CASE d = 0 -> "0" [] d = 1 -> "1" [] d = 2 -> "2" [] d = 3 -> "3"
      [] d = 4 -> "4" [] d = 5 -> "5" [] d = 6 -> "6" [] d = 7 -> "7"
      [] d = 8 -> "8" [] d = 9 -> "9"

RECURSIVE Pow10(_)
Pow10(k) == IF k = 0 THEN 1 ELSE 10 * Pow10(k - 1)

RECURSIVE Normalise(_, _)
Normalise(m, k) ==
    IF k > 0 /\ m % 10 = 0 THEN Normalise(m \div 10, k - 1)
    ELSE [m |-> m, k |-> k]

Max(a, b) == IF a >= b THEN a ELSE b

Zero == [m |-> 0, k |-> 0]

FromInt(n) == [m |-> n, k |-> 0]

DecAdd(a, b) ==
    LET k == Max(a.k, b.k)
    IN  Normalise(a.m * Pow10(k - a.k) + b.m * Pow10(k - b.k), k)

DecSub(a, b) == DecAdd(a, [m |-> 0 - b.m, k |-> b.k])

DecLess(a, b) == DecSub(a, b).m < 0

RECURSIVE DigitsToInt(_)
DigitsToInt(cs) ==
    IF cs = <<>> THEN 0
    ELSE 10 * DigitsToInt(SubSeq(cs, 1, Len(cs) - 1)) + DigitVal(cs[Len(cs)])

\* Index of the first "." of cs, or Len(cs) + 1 when there is none.
DotPos(cs) ==
    IF \E i \in 1..Len(cs) : cs[i] = "."
    THEN CHOOSE i \in 1..Len(cs) :
            cs[i] = "." /\ \A j \in 1..(i - 1) : cs[j] # "."
    ELSE Len(cs) + 1

\* float(s) for s of the shape digits+ [ "." digits* ].
float(cs) ==
    LET p    == DotPos(cs)
        ip   == SubSeq(cs, 1, p - 1)
        frac == SubSeq(cs, p + 1, Len(cs))
    IN  Normalise(DigitsToInt(ip \o frac), Len(frac))

RECURSIVE IntToChars(_)
IntToChars(n) ==
    IF n < 10 THEN <<DigitChar(n)>>
    ELSE Append(IntToChars(n \div 10), DigitChar(n % 10))

RECURSIVE ZeroPad(_, _)
ZeroPad(cs, w) == IF Len(cs) >= w THEN cs ELSE ZeroPad(<<"0">> \o cs, w)

\* Mutant of float_repr: the number is written without its fraction.
float_repr_no_fraction(d) == IntToChars(d.m \div Pow10(d.k))

\* repr() of a non-negative float, as json.dump writes it: "12.0", "12.5".
float_repr(d) ==
    LET p == Pow10(d.k)
    IN  IntToChars(d.m \div p) \o <<".">> \o
        (IF d.k = 0 THEN <<"0">> ELSE ZeroPad(IntToChars(d.m % p), d.k))

---------------------------------------------------------------------------
(* re.findall(r'\d+\.?\d*', s), as the spans re.finditer would report *)

\* Last index of the run of digits that starts at i (i - 1 when s[i] is none).
RECURSIVE DigitRunEnd(_, _)
DigitRunEnd(s, i) ==
    IF i <= Len(s) /\ s[i] \in Digits THEN DigitRunEnd(s, i + 1) ELSE i - 1

\* End of the greedy match of \d+\.?\d* that starts at the digit s[i].
MatchEnd(s, i) ==
    LET j == DigitRunEnd(s, i)
    IN  IF j + 1 <= Len(s) /\ s[j + 1] = "." THEN DigitRunEnd(s, j + 2) ELSE j

RECURSIVE re_finditer(_, _)
re_finditer(s, i) ==
    IF i > Len(s) THEN <<>>
    ELSE IF s[i] \in Digits
         THEN LET e == MatchEnd(s, i)
              IN  <<(<<i, e>>)>> \o re_finditer(s, e + 1)
         ELSE re_finditer(s, i + 1)

re_findall(s) ==
    LET spans == re_finditer(s, 1)
    IN  [n \in 1..Len(spans) |-> SubSeq(s, spans[n][1], spans[n][2])]

---------------------------------------------------------------------------
(* Results of calls: a value or a raised exception *)

None == [none |-> TRUE]

Return(v) == [ok |-> TRUE, val |-> v, exc |-> "", at |-> "", warn |-> FALSE]

\* A value returned after the function printed a warning.
ReturnWarn(v) == [ok |-> TRUE, val |-> v, exc |-> "", at |-> "", warn |-> TRUE]

\* Exception e raised by (and escaping from) the function named at.
Raise(e, at) == [ok |-> FALSE, val |-> None, exc |-> e, at |-> at, warn |-> FALSE]

NotCalled == [ok |-> FALSE, val |-> None, exc |-> "", at |-> "", warn |-> FALSE]

\* The dictionary parse_nutritional_data builds from four numbers.
NutritionDict(p, c, f, cal) ==
    [dict |-> [proteins |-> [float |-> p], carbs |-> [float |-> c],
               fat |-> [float |-> f], calories |-> [float |-> cal]]]

\* Mutant of parse_nutritional_data: the last four numbers are taken.
parse_nutritional_data_last_four(response) ==
    LET numbers == re_findall(response)
        n == Len(numbers)
    IN  IF n < 4 THEN Raise("ValueError", "parse_nutritional_data")
        ELSE Return(NutritionDict(float(numbers[n - 3]), float(numbers[n - 2]),
                                  float(numbers[n - 1]), float(numbers[n])))

parse_nutritional_data(response) ==
    LET numbers == re_findall(response)
    IN  IF Len(numbers) < 4 THEN Raise("ValueError", "parse_nutritional_data")
        ELSE Return(NutritionDict(float(numbers[1]), float(numbers[2]),
                                  float(numbers[3]), float(numbers[4])))


---------------------------------------------------------------------------
(* json.load and json.dump *)

IsDict(v) == "dict" \in DOMAIN v

IsList(v) == "list" \in DOMAIN v

IsFloat(v) == "float" \in DOMAIN v

IsStr(v) == "str" \in DOMAIN v

EmptyList == [list |-> <<>>]

RECURSIVE json_load(_)
json_load(j) ==
    CASE "null" \in DOMAIN j -> None
      [] "num" \in DOMAIN j  -> [float |-> float(j.num)]
      [] "str" \in DOMAIN j  -> [str |-> j.str]
      [] "arr" \in DOMAIN j  ->
            [list |-> [n \in DOMAIN j.arr |-> json_load(j.arr[n])]]
      [] "obj" \in DOMAIN j  ->
            [dict |-> [key \in DOMAIN j.obj |-> json_load(j.obj[key])]]

RECURSIVE json_dump(_)
json_dump(v) ==
    CASE "none" \in DOMAIN v  -> [null |-> TRUE]
      [] "float" \in DOMAIN v -> [num |-> float_repr(v.float)]
      [] "str" \in DOMAIN v   -> [str |-> v.str]
      [] "list" \in DOMAIN v  ->
            [arr |-> [n \in DOMAIN v.list |-> json_dump(v.list[n])]]
      [] "dict" \in DOMAIN v  ->
            [obj |-> [key \in DOMAIN v.dict |-> json_dump(v.dict[key])]]

---------------------------------------------------------------------------
(* The ledger file and the functions that read it *)

NoFile == [absent |-> TRUE]

\* The file between open(filepath, 'w') and the end of json.dump: zero bytes
\* or a prefix of the document.
Truncated == [invalid |-> "truncated"]

load_daily_data(f) ==
    IF f = NoFile THEN Return(EmptyList)
    ELSE IF "invalid" \in DOMAIN f
    THEN IF f.invalid = "undecodable"
         THEN Raise("UnicodeDecodeError", "load_daily_data")
         ELSE ReturnWarn(EmptyList)
    ELSE LET d == json_load(f.json)
         IN  IF ~IsDict(d) THEN Raise("AttributeError", "load_daily_data")
             ELSE IF "entries" \in DOMAIN d.dict THEN Return(d.dict.entries)
             ELSE Return(EmptyList)

\* The exception entry["nutrition"]["calories"] raises, or "" when the
\* expression yields a number that sum() accepts.
CaloriesExc(e) ==
    IF ~IsDict(e) THEN "TypeError"
    ELSE IF "nutrition" \notin DOMAIN e.dict THEN "KeyError"
    ELSE IF ~IsDict(e.dict.nutrition) THEN "TypeError"
    ELSE IF "calories" \notin DOMAIN e.dict.nutrition.dict THEN "KeyError"
    ELSE IF ~IsFloat(e.dict.nutrition.dict.calories) THEN "TypeError"
    ELSE ""

RECURSIVE sum(_)
sum(es) ==
    IF es = <<>> THEN Zero
    ELSE DecAdd(sum(SubSeq(es, 1, Len(es) - 1)),
                es[Len(es)].dict.nutrition.dict.calories.float)

\* Does iterating v yield nothing ([], {}, "")?
IteratesEmpty(v) ==
    \/ IsList(v) /\ v.list = <<>>
    \/ IsDict(v) /\ DOMAIN v.dict = {}
    \/ IsStr(v) /\ v.str = ""

\* sum(e["nutrition"]["calories"] for e in entries), at the function named at.
total_calories(entries, at) ==
    IF IteratesEmpty(entries) THEN Return([float |-> Zero])
    ELSE IF ~IsList(entries) THEN Raise("TypeError", at)
    ELSE IF \E n \in DOMAIN entries.list : CaloriesExc(entries.list[n]) # ""
    THEN LET n == CHOOSE m \in DOMAIN entries.list :
                    /\ CaloriesExc(entries.list[m]) # ""
                    /\ \A l \in 1..(m - 1) : CaloriesExc(entries.list[l]) = ""
         IN  Raise(CaloriesExc(entries.list[n]), at)
    ELSE Return([float |-> sum(entries.list)])

\* Mutant of calculate_remaining_calories: the difference is taken the
\* wrong way round.
calculate_remaining_calories_swapped(f, limit) ==
    LET existing_entries == load_daily_data(f)
        total == total_calories(existing_entries.val,
                                "calculate_remaining_calories")
    IN  IF ~existing_entries.ok THEN existing_entries
        ELSE IF ~total.ok THEN total
        ELSE [ok |-> TRUE,
              val |-> [tuple |-> <<total.val.float,
                                   DecSub(total.val.float, FromInt(limit))>>],
              exc |-> "", at |-> "", warn |-> existing_entries.warn]

calculate_remaining_calories(f, limit) ==
    LET existing_entries == load_daily_data(f)
        total == total_calories(existing_entries.val,
                                "calculate_remaining_calories")
    IN  IF ~existing_entries.ok THEN existing_entries
        ELSE IF ~total.ok THEN total
        ELSE [ok |-> TRUE,
              val |-> [tuple |-> <<total.val.float,
                                   DecSub(FromInt(limit), total.val.float)>>],
              exc |-> "", at |-> "", warn |-> existing_entries.warn]

Truthy(v) ==
    \/ IsList(v) /\ v.list # <<>>
    \/ IsDict(v) /\ DOMAIN v.dict # {}
    \/ IsStr(v) /\ v.str # ""
    \/ IsFloat(v) /\ v.float # Zero

NutritionKeys == {"proteins", "carbs", "fat", "calories"}

\* The exception printing one entry raises, or "".
DisplayExc(e) ==
    IF ~IsDict(e) THEN "TypeError"
    ELSE IF "timestamp" \notin DOMAIN e.dict THEN "KeyError"
    ELSE IF ~IsStr(e.dict.timestamp) THEN "AttributeError"
    ELSE IF "nutrition" \notin DOMAIN e.dict THEN "KeyError"
    ELSE IF "food" \notin DOMAIN e.dict THEN "KeyError"
    ELSE IF ~IsDict(e.dict.nutrition) THEN "TypeError"
    ELSE IF ~(NutritionKeys \subseteq DOMAIN e.dict.nutrition.dict)
    THEN "KeyError"
    ELSE IF \E key \in NutritionKeys : ~IsFloat(e.dict.nutrition.dict[key])
    THEN "TypeError"
    ELSE ""

display_existing_entries(f) ==
    LET existing_entries == load_daily_data(f)
        v == existing_entries.val
    IN  IF ~existing_entries.ok THEN existing_entries
        ELSE IF ~Truthy(v) THEN existing_entries
        ELSE IF ~IsList(v) THEN Raise("TypeError", "display_existing_entries")
        ELSE IF \E n \in DOMAIN v.list : DisplayExc(v.list[n]) # ""
        THEN LET n == CHOOSE m \in DOMAIN v.list :
                        /\ DisplayExc(v.list[m]) # ""
                        /\ \A l \in 1..(m - 1) : DisplayExc(v.list[l]) = ""
             IN  Raise(DisplayExc(v.list[n]), "display_existing_entries")
        ELSE existing_entries

\* Which line display_daily_summary prints below the totals.
display_daily_summary(rem) ==
    IF DecLess(rem, Zero) THEN "exceeded"
    ELSE IF DecLess(rem, FromInt(200)) THEN "almost"
    ELSE "great"

---------------------------------------------------------------------------
(* The estimator and save_to_file *)

\* What requests.post can come back with.
Text_310 == <<"1", "2", ".", "5", "g", " ", "4", "0", "g", " ", "3", "g",
              " ", "3", "1", "0">>

Text_100 == <<"2", " ", "2", "0", ".", " ", "0", ".", "5", " ", "1", "0", "0",
              " ", "k", "c", "a", "l", " ", "p", "e", "r", " ", "1", "0", "0",
              "g">>

Text_3_numbers == <<"2", "0", "g", " ", "3", "0", "g", " ", "1", "0", "g">>

LLMOutcomes ==
    { [status |-> "ConnectionError", response |-> <<>>],
      [status |-> "HTTPError", response |-> <<>>],
      [status |-> "ok", response |-> Text_310],
      [status |-> "ok", response |-> Text_100],
      [status |-> "ok", response |-> Text_3_numbers] }

\* Mutant of query_llm: a failed request yields an all-zero estimate.
query_llm_default(o) ==
    IF o.status # "ok" THEN Return(NutritionDict(Zero, Zero, Zero, Zero))
    ELSE parse_nutritional_data(o.response)

query_llm(o) ==
    IF o.status # "ok" THEN Raise("Exception", "query_llm")
    ELSE parse_nutritional_data(o.response)

Entry(now, food_description, nutr) ==
    [dict |-> [timestamp |-> [str |-> now],
               food |-> [str |-> food_description],
               nutrition |-> nutr]]

\* Mutant of save_to_file: the stored total is carried over and the new
\* entry's calories are added to it.
save_to_file_carry(f, food_description, nutr, now, date) ==
    LET existing_entries == load_daily_data(f)
        entries == [list |-> Append(existing_entries.val.list,
                                    Entry(now, food_description, nutr))]
        total == total_calories(entries, "save_to_file")
        stored == IF "json" \in DOMAIN f
                     /\ "total_calories" \in DOMAIN json_load(f.json).dict
                  THEN json_load(f.json).dict.total_calories.float
                  ELSE Zero
    IN  IF ~existing_entries.ok THEN existing_entries
        ELSE IF ~IsList(existing_entries.val)
        THEN Raise("AttributeError", "save_to_file")
        ELSE IF ~total.ok THEN total
        ELSE [ok |-> TRUE,
              val |-> [dict |-> [entries |-> entries,
                                 total_calories |->
                                    [float |-> DecAdd(stored,
                                        nutr.dict.calories.float)],
                                 date |-> [str |-> date]]],
              exc |-> "", at |-> "", warn |-> existing_entries.warn]

\* Mutant of save_to_file: the record is built from the new entry alone.
save_to_file_fresh(f, food_description, nutr, now, date) ==
    LET entries == [list |-> <<Entry(now, food_description, nutr)>>]
        total == total_calories(entries, "save_to_file")
    IN  [ok |-> TRUE,
         val |-> [dict |-> [entries |-> entries,
                            total_calories |-> total.val,
                            date |-> [str |-> date]]],
         exc |-> "", at |-> "", warn |-> FALSE]

\* save_to_file up to the point where it opens the file: the record to dump.
save_to_file(f, food_description, nutr, now, date) ==
    LET existing_entries == load_daily_data(f)
        entries == [list |-> Append(existing_entries.val.list,
                                    Entry(now, food_description, nutr))]
        total == total_calories(entries, "save_to_file")
    IN  IF ~existing_entries.ok THEN existing_entries
        ELSE IF ~IsList(existing_entries.val)
        THEN Raise("AttributeError", "save_to_file")
        ELSE IF ~total.ok THEN total
        ELSE [ok |-> TRUE,
              val |-> [dict |-> [entries |-> entries,
                                 total_calories |-> total.val,
                                 date |-> [str |-> date]]],
              exc |-> "", at |-> "", warn |-> existing_entries.warn]

---------------------------------------------------------------------------
(* The runs *)

Runs == {"r1", "r2"}

Dates == <<"26-11-06", "26-11-07">>

DateSet == {Dates[n] : n \in DOMAIN Dates}

Menu == [r \in Runs |-> IF r = "r1" THEN <<"2 slices pizza", "1 cup rice",
                                            "300ml milk", "1 apple", "1 egg">>
                        ELSE <<"150g chicken breast", "50g nuts",
                               "200g ramen noodles", "2 eggs",
                               "1 banana">>]

Active == {"display", "status", "input", "query", "save", "open", "dump",
           "summary", "push"}

NoExc == [type |-> "", at |-> ""]

NoResponse == [status |-> "", response |-> <<>>]

\* The local variables before run() assigns them.
NoLocals ==
    [food_descriptions |-> <<>>, i |-> 0, response |-> NoResponse,
     nutrition |-> None, data |-> None, date_str |-> "", filepaths |-> <<>>,
     consumed |-> Zero, remaining |-> Zero]

Say(r, msgs) == out' = [out EXCEPT ![r] = @ \cup msgs]

Warned(res) == IF res.warn THEN {"corrupt_warning"} ELSE {}

\* The run moves to statement p with its locals updated to l.
Goto(r, p, l) ==
    /\ pc' = [pc EXCEPT ![r] = p]
    /\ local' = [local EXCEPT ![r] = l]
    /\ UNCHANGED exc

\* Mutant of Fail: a failure inside the loop skips to the next food item.
Fail_continue(r, res) ==
    /\ IF pc[r] = "query" /\ local[r].i < Len(local[r].food_descriptions)
       THEN /\ pc' = [pc EXCEPT ![r] = "query"]
            /\ local' = [local EXCEPT ![r].i = @ + 1]
       ELSE /\ pc' = [pc EXCEPT ![r] = "error"]
            /\ UNCHANGED local
    /\ exc' = [exc EXCEPT ![r] = [type |-> res.exc, at |-> res.at]]
    /\ Say(r, {"error"})

\* except Exception as e: print(f"Error: {e}"), and run() returns.
Fail(r, res) ==
    /\ pc' = [pc EXCEPT ![r] = "error"]
    /\ UNCHANGED local
    /\ exc' = [exc EXCEPT ![r] = [type |-> res.exc, at |-> res.at]]
    /\ Say(r, {"error"})

JsonNum(cs) == [num |-> cs]

JsonEntry(ts, food_description, cal) ==
    [obj |-> [timestamp |-> [str |-> ts], food |-> [str |-> food_description],
              nutrition |-> [obj |-> [proteins |-> JsonNum(<<"9">>),
                                      carbs |-> JsonNum(<<"1", "2", ".", "5">>),
                                      fat |-> JsonNum(<<"7", ".", "0">>),
                                      calories |-> JsonNum(cal)]]]]

JsonLedger(es, total, date) ==
    [json |-> [obj |-> [entries |-> [arr |-> es],
                        total_calories |-> JsonNum(total),
                        date |-> [str |-> date]]]]

Ledger_1850 ==
    JsonLedger(<<JsonEntry(0, "oatmeal", <<"1", "8", "5", "0", ".", "0">>)>>,
               <<"1", "8", "5", "0", ".", "0">>, Dates[1])

\* A ledger whose stored total is not the sum of its entries.
Ledger_drifted ==
    JsonLedger(<<JsonEntry(0, "burger", <<"1", "9", "0", "0">>)>>,
               <<"9", "9", "9">>, Dates[1])

\* The ledger files a run can find for the first date.
InitialFiles ==
    { NoFile,
      [invalid |-> "garbage"],
      [invalid |-> "undecodable"],
      [json |-> [arr |-> <<>>]],
      [json |-> [obj |-> [date |-> [str |-> Dates[1]]]]],
      [json |-> [obj |-> [entries |-> [null |-> TRUE]]]],
      JsonLedger(<<[obj |-> [timestamp |-> [str |-> 0],
                             food |-> [str |-> "1 apple"]]]>>,
                 <<"0">>, Dates[1]),
      Ledger_1850,
      Ledger_drifted }

DailyLimits == {2000, 3000}

InitWith(files, limits) ==
    /\ file \in {[d \in DateSet |-> IF d = Dates[1] THEN f ELSE NoFile] :
                    f \in files}
    /\ file0 = file
    /\ today = Dates[1]
    /\ clock = 1
    /\ daily_limit \in limits
    /\ pc = [r \in Runs |-> "new"]
    /\ local = [r \in Runs |-> NoLocals]
    /\ out = [r \in Runs |-> {}]
    /\ exc = [r \in Runs |-> NoExc]
    /\ appended = [d \in DateSet |-> <<>>]
    /\ sequential = TRUE
    /\ llm_response = <<>>
    /\ parse_result = NotCalled

Init == InitWith(InitialFiles, DailyLimits)

\* How pull_from_git ends for each way "git pull" can end: it never raises.
pull_from_git(o) == IF o = "ok" THEN Return(None) ELSE ReturnWarn(None)

\* CalorieTracker(): __init__ with its git pull, for a run given n foods,
\* n drawn from counts, and a pull that ends in one of pulls.
Construct(r, counts, pulls) ==
    /\ pc[r] = "new"
    /\ \E n \in counts, o \in pulls :
          /\ Goto(r, "display",
                  [local[r] EXCEPT !.food_descriptions = SubSeq(Menu[r], 1, n)])
          /\ Say(r, IF pull_from_git(o).warn THEN {"pull_warning"}
                    ELSE {"pull_ok"})
    /\ UNCHANGED <<ledger_vars, parse_vars>>

\* run(): self.display_existing_entries()
Display(r) ==
    /\ pc[r] = "display"
    /\ LET res == display_existing_entries(file[today])
       IN  IF res.ok
           THEN Goto(r, "status", local[r]) /\ Say(r, Warned(res))
           ELSE Fail(r, res)
    /\ UNCHANGED <<ledger_vars, parse_vars>>

\* run(): consumed, remaining = self.calculate_remaining_calories()
Status(r) ==
    /\ pc[r] = "status"
    /\ LET res == calculate_remaining_calories(file[today], daily_limit)
       IN  IF res.ok
           THEN /\ Goto(r, "input",
                        [local[r] EXCEPT !.consumed = res.val.tuple[1],
                                         !.remaining = res.val.tuple[2]])
                /\ Say(r, Warned(res) \cup
                          (IF DecLess(Zero, res.val.tuple[1])
                           THEN {"status"} ELSE {}))
           ELSE Fail(r, res)
    /\ UNCHANGED <<ledger_vars, parse_vars>>

\* run(): food_descriptions = self.get_user_input(food_descriptions)
Input(r) ==
    /\ pc[r] = "input"
    /\ IF local[r].food_descriptions # <<>>
       THEN Goto(r, "query", [local[r] EXCEPT !.i = 1]) /\ UNCHANGED out
       ELSE \E typed \in {"", "1 bowl soup"} :
               IF typed = ""
               THEN Fail(r, Raise("ValueError", "get_user_input"))
               ELSE /\ Goto(r, "query",
                            [local[r] EXCEPT !.food_descriptions = <<typed>>,
                                             !.i = 1])
                    /\ UNCHANGED out
    /\ UNCHANGED <<ledger_vars, parse_vars>>

\* run(): nutrition = self.query_llm(food_description)
Query(r, outcomes) ==
    /\ pc[r] = "query"
    /\ \E o \in outcomes :
          LET res == query_llm(o)
          IN  IF res.ok
              THEN /\ Goto(r, "save", [local[r] EXCEPT !.response = o,
                                                       !.nutrition = res.val])
                   /\ UNCHANGED out
              ELSE Fail(r, res)
    /\ UNCHANGED <<ledger_vars, parse_vars>>

\* save_to_file, lines 170-196: read the file and build the record.
SaveLoad(r) ==
    /\ pc[r] = "save"
    /\ clock' = clock + 1
    /\ LET l   == local[r]
           res == save_to_file(file[today], l.food_descriptions[l.i],
                               l.nutrition, clock, today)
       IN  IF res.ok
           THEN /\ Goto(r, "open", [l EXCEPT !.data = res.val,
                                             !.date_str = today])
                /\ Say(r, Warned(res))
                /\ sequential' =
                      (sequential /\ \A q \in Runs \ {r} :
                                        pc[q] \notin {"open", "dump"})
           ELSE /\ Fail(r, res)
                /\ UNCHANGED sequential
    /\ UNCHANGED <<file, today, daily_limit, appended, file0, parse_vars>>

\* save_to_file, line 199: open(filepath, 'w') empties the file.
SaveOpen(r) ==
    /\ pc[r] = "open"
    /\ file' = [file EXCEPT ![local[r].date_str] = Truncated]
    /\ Goto(r, "dump", local[r])
    /\ UNCHANGED <<today, clock, daily_limit, appended, sequential, file0,
                   parse_vars, out>>

\* The bytes on disk once this run's json.dump is flushed and closed: its
\* document, or, when another handle wrote the file since this run emptied
\* it, possibly its document followed by the tail of the other one.
Written(f, doc) ==
    IF f = Truncated THEN {[json |-> doc]}
    ELSE {[json |-> doc], [invalid |-> "interleaved"]}

\* save_to_file, lines 200-204, and the rest of the loop body.
SaveDump(r) ==
    LET l == local[r]
        d == l.date_str
        entries == l.data.dict.entries.list
    IN  /\ pc[r] = "dump"
        /\ file' \in {[file EXCEPT ![d] = w] :
                         w \in Written(file[d], json_dump(l.data))}
        /\ appended' = [appended EXCEPT ![d] = Append(@, entries[Len(entries)])]
        /\ Say(r, {"saved", "added"})
        /\ Goto(r, IF l.i < Len(l.food_descriptions) THEN "query"
                   ELSE "summary",
                [l EXCEPT !.filepaths = Append(@, d), !.data = None,
                          !.date_str = "",
                          !.i = IF l.i < Len(l.food_descriptions)
                                THEN l.i + 1 ELSE l.i])
        /\ UNCHANGED <<today, clock, daily_limit, sequential, file0,
                       parse_vars>>

\* run(): the final calculate_remaining_calories and display_daily_summary.
Summary(r) ==
    /\ pc[r] = "summary"
    /\ LET res == calculate_remaining_calories(file[today], daily_limit)
       IN  IF res.ok
           THEN /\ Goto(r, IF local[r].filepaths # <<>> THEN "push" ELSE "done",
                        [local[r] EXCEPT !.consumed = res.val.tuple[1],
                                         !.remaining = res.val.tuple[2]])
                /\ Say(r, Warned(res) \cup
                          {"summary", display_daily_summary(res.val.tuple[2])})
           ELSE Fail(r, res)
    /\ UNCHANGED <<ledger_vars, parse_vars>>

\* How git_commit_and_push ends for each way its git commands can end.
git_commit_and_push(o) ==
    IF o = "OSError" THEN Raise("OSError", "git_commit_and_push")
    ELSE IF o = "CalledProcessError" THEN ReturnWarn(None)
    ELSE Return(None)

\* run(): self.git_commit_and_push(filepaths[0])
Push(r) ==
    /\ pc[r] = "push"
    /\ \E o \in {"ok", "CalledProcessError", "OSError"} :
          LET res == git_commit_and_push(o)
          IN  IF res.ok
              THEN /\ Goto(r, "done", local[r])
                   /\ Say(r, IF res.warn THEN {"push_warning"}
                             ELSE {"push_ok"})
              ELSE Fail(r, res)
    /\ UNCHANGED <<ledger_vars, parse_vars>>

\* except KeyboardInterrupt: the user interrupts the run where it stands.
Interrupt(r) ==
    /\ pc[r] \in Active
    /\ Goto(r, "interrupted", local[r])
    /\ Say(r, {"goodbye"})
    /\ sequential' = (sequential /\ pc[r] # "dump")
    /\ UNCHANGED <<file, today, clock, daily_limit, appended, file0,
                   parse_vars>>

\* The calendar day changes.
Midnight ==
    /\ today = Dates[1]
    /\ today' = Dates[2]
    /\ UNCHANGED <<file, clock, daily_limit, appended, sequential, file0,
                   parse_vars, run_vars>>

PullOutcomes == {"ok", "nonzero", "OSError"}

\* One step of run r.
Step(r, counts, pulls, outcomes) ==
    \/ Construct(r, counts, pulls)
    \/ Display(r)
    \/ Status(r)
    \/ Input(r)
    \/ Query(r, outcomes)
    \/ SaveLoad(r)
    \/ SaveOpen(r)
    \/ SaveDump(r)
    \/ Summary(r)
    \/ Push(r)
    \/ Interrupt(r)

\* Single-writer, single-process use: one run, any input, any day.
SoloRuns == {"r1"}

Next ==
    \/ \E r \in SoloRuns : Step(r, 0..MaxItems, PullOutcomes, LLMOutcomes)
    \/ Midnight

Spec == Init /\ [][Next]_vars

---------------------------------------------------------------------------
(* SpecRace: two runs of the same day at once *)

InitRace == InitWith({NoFile, Ledger_1850}, {3000})

RaceOutcomes ==
    {o \in LLMOutcomes : o.response \in {Text_310, Text_3_numbers}}

NextRace == \E r \in Runs : Step(r, 1..MaxRaceItems, {"ok"}, RaceOutcomes)

SpecRace == InitRace /\ [][NextRace]_vars

---------------------------------------------------------------------------
(* SpecParse: parse_nutritional_data applied to every short reply *)

ReplyAlphabet == {"0", "1", ".", "x"}

InitParse == InitWith({NoFile}, {3000})

\* The estimator's reply, one character at a time.
Reply(c) ==
    /\ parse_result = NotCalled
    /\ Len(llm_response) < MaxReplyLen
    /\ llm_response' = Append(llm_response, c)
    /\ UNCHANGED <<parse_result, ledger_vars, run_vars>>

Parse ==
    /\ parse_result = NotCalled
    /\ parse_result' = parse_nutritional_data(llm_response)
    /\ UNCHANGED <<llm_response, ledger_vars, run_vars>>

NextParse == (\E c \in ReplyAlphabet : Reply(c)) \/ Parse

SpecParse == InitParse /\ [][NextParse]_vars

---------------------------------------------------------------------------
(* Properties *)

\* What load_daily_data returns for date d now.
Loaded(d) == load_daily_data(file[d])

\* Some run is between open(filepath, 'w') and the end of json.dump for d.
Writing(d) == \E r \in Runs : pc[r] = "dump" /\ local[r].date_str = d

\* d in units of 10^-K.
Scale(d, K) == d.m * Pow10(K - d.k)

\* The largest number of fraction digits among the decimals of ds.
MaxFrac(ds) == CHOOSE k \in {d.k : d \in ds} : \A d \in ds : d.k <= k

RECURSIVE SeqSum(_)
SeqSum(ns) == IF ns = <<>> THEN 0 ELSE ns[1] + SeqSum(Tail(ns))

\* The calories of the entries es.
CaloriesOf(es) ==
    [n \in DOMAIN es |-> es[n].dict.nutrition.dict.calories.float]

\* total is the sum of the calories of the entries es.
IsSumOf(total, es) ==
    LET cals == CaloriesOf(es)
        K == MaxFrac({total} \cup {cals[n] : n \in DOMAIN cals})
    IN  Scale(total, K) = SeqSum([n \in DOMAIN cals |-> Scale(cals[n], K)])

EstimationFailure == {"query_llm", "parse_nutritional_data"}

\* C1: from a date without a stored record, after N appends that each ran
\* alone and to its end, load_daily_data returns exactly the N appended
\* entries, in call order and equal in every field.
C1_AppendsThenLoad ==
    \A d \in DateSet :
        (file0[d] = NoFile /\ sequential /\ ~Writing(d))
            => Loaded(d) = Return([list |-> appended[d]])

C1_Witness ==
    \E d \in DateSet :
        /\ file0[d] = NoFile /\ sequential /\ ~Writing(d)
        /\ Len(appended[d]) >= 2
        /\ Loaded(d).val.list[Len(appended[d])] = appended[d][Len(appended[d])]
        /\ appended[d][1].dict.nutrition.dict.proteins.float = [m |-> 125, k |-> 1]

\* C2: every record save_to_file has written holds a total_calories equal to
\* the sum of the calories of the entries of that same record.
C2_TotalMatchesEntries ==
    \A d \in DateSet :
        (file[d] # file0[d] /\ "json" \in DOMAIN file[d])
            => LET doc == json_load(file[d].json).dict
               IN  IsSumOf(doc.total_calories.float, doc.entries.list)

C2_Witness ==
    \E d \in DateSet :
        /\ file0[d] = Ledger_drifted
        /\ ~IsSumOf(json_load(file0[d].json).dict.total_calories.float,
                    load_daily_data(file0[d]).val.list)
        /\ file[d] # file0[d] /\ "json" \in DOMAIN file[d]
        /\ Len(json_load(file[d].json).dict.entries.list) >= 3

\* The estimate a run holds came from a reply with at least four numbers.
FullEstimate(l) ==
    /\ l.response.status = "ok"
    /\ Len(re_findall(l.response.response)) >= 4
    /\ IsDict(l.nutrition)
    /\ DOMAIN l.nutrition.dict = NutritionKeys
    /\ \A key \in NutritionKeys : IsFloat(l.nutrition.dict[key])

\* C3: an item whose estimation fails or whose reply has fewer than four
\* numbers leaves the ledger as it was, and only items with a full four-value
\* estimate reach save_to_file and the ledger.
C3_OnlyEstimatedItemsRecorded ==
    [][\A r \in Runs :
          /\ (pc[r] = "query" /\ pc'[r] = "error")
                => (file' = file /\ appended' = appended)
          /\ pc'[r] \in {"save", "open", "dump"} => FullEstimate(local'[r])
          /\ (pc[r] = "dump" /\ pc'[r] \in {"query", "summary"})
                => LET d == local[r].date_str
                       e == appended'[d][Len(appended'[d])]
                   IN  /\ FullEstimate(local[r])
                       /\ e.dict.nutrition = local[r].nutrition
                       /\ e.dict.food.str =
                             local[r].food_descriptions[local[r].i]]_vars

C3_Witness ==
    \E r \in Runs, d \in DateSet :
        /\ pc[r] = "error" /\ exc[r].at \in EstimationFailure
        /\ local[r].i = 3
        /\ file0[d] = NoFile
        /\ Len(appended[d]) = 2
        /\ Loaded(d).val.list = appended[d]

\* C4 as claimed: an estimation failure for an item that has successors does
\* not end the run.
C4_RunContinues ==
    [][\A r \in Runs :
          (pc[r] = "query" /\ local[r].i < Len(local[r].food_descriptions))
              => pc'[r] # "error"]_vars

\* C4: an estimation failure ends the run: it is reported through the
\* top-level handler, the failed item is not recorded, the run never leaves
\* the handler's end again, so no later item is estimated, and neither the
\* summary nor the push takes place.
C4_FailureEndsRun ==
    [][\A r \in Runs :
          /\ exc'[r] # NoExc => (pc'[r] = "error" /\ "error" \in out'[r])
          /\ pc[r] = "error" => (pc'[r] = "error" /\ local'[r] = local[r])
          /\ (pc[r] = "query" /\ pc'[r] = "error")
                => /\ exc'[r].at \in EstimationFailure
                   /\ file' = file /\ appended' = appended
                   /\ local'[r].i = local[r].i
                   /\ out'[r] \cap {"summary", "push_ok", "push_warning"} = {}
       ]_vars

C4_Witness ==
    \E r \in Runs, d \in DateSet :
        /\ pc[r] = "error" /\ exc[r].at \in EstimationFailure
        /\ local[r].i = 2 /\ Len(local[r].food_descriptions) = 3
        /\ file0[d] = NoFile
        /\ Len(Loaded(d).val.list) = 1
        /\ "summary" \notin out[r]

\* C5: no run is ended by the stored record: load_daily_data never raises,
\* and neither does what the run does with the entries it returned.
C5_CorruptLedgerNeverFatal ==
    \A r \in Runs :
        exc[r].at \notin {"load_daily_data", "display_existing_entries",
                          "calculate_remaining_calories", "save_to_file"}

\* C6: the ledger file never holds a truncated or partially written record.
C6_WriteIsAtomic == \A d \in DateSet : file[d] # Truncated

\* C7: as long as every save ran alone and to its end, every entry whose
\* save completed is in the ledger; a lost update needs two overlapping saves.
C7_SequentialRunsLoseNothing ==
    \A d \in DateSet :
        (sequential /\ ~Writing(d))
            => LET res == Loaded(d)
               IN  /\ res.ok /\ IsList(res.val)
                   /\ \A n \in DOMAIN appended[d] :
                         \E m \in DOMAIN res.val.list :
                            res.val.list[m] = appended[d][n]

\* Two runs saved one entry each, and the ledger is the complete record of
\* the last writer, without the other run's entry.
C7_LostUpdate ==
    \E d \in DateSet :
        /\ ~sequential
        /\ \A r \in Runs : pc[r] \notin {"save", "open", "dump"}
        /\ Len(appended[d]) = 2
        /\ appended[d][1].dict.food # appended[d][2].dict.food
        /\ "json" \in DOMAIN file[d]
        /\ LET es == Loaded(d).val.list
           IN  /\ es[Len(es)] = appended[d][2]
               /\ \A m \in DOMAIN es : es[m] # appended[d][1]

\* C8: no failure of git pull or git push reaches the top-level handler.
C8_SyncFailureOnlyWarns ==
    \A r \in Runs : exc[r].at \notin {"pull_from_git", "git_commit_and_push"}

Tiers == {"exceeded", "almost", "great"}

\* The file is absent, is not JSON, or is a JSON object whose entries, if
\* any, are a list of objects that each carry nutrition.calories as a number.
EntriesHaveCalories(f) ==
    \/ f = NoFile
    \/ "invalid" \in DOMAIN f /\ f.invalid # "undecodable"
    \/ /\ "json" \in DOMAIN f
       /\ "obj" \in DOMAIN f.json
       /\ \/ "entries" \notin DOMAIN f.json.obj
          \/ /\ "arr" \in DOMAIN f.json.obj.entries
             /\ \A n \in DOMAIN f.json.obj.entries.arr :
                   LET e == f.json.obj.entries.arr[n]
                   IN  /\ "obj" \in DOMAIN e
                       /\ "nutrition" \in DOMAIN e.obj
                       /\ "obj" \in DOMAIN e.obj.nutrition
                       /\ "calories" \in DOMAIN e.obj.nutrition.obj
                       /\ "num" \in DOMAIN e.obj.nutrition.obj.calories

\* C9: for every ledger whose entries carry calories and every daily limit,
\* calculate_remaining_calories returns the sum of the calories of the
\* entries loaded for today and daily_limit minus that sum, leaves the file
\* alone, and the summary prints the over-limit line when remaining < 0, the
\* near-limit line when 0 <= remaining < 200 and the on-track line otherwise.
C9_ConsumedRemainingTier ==
    [][\A r \in Runs :
        /\ (pc[r] \in {"status", "summary"} /\ pc'[r] = "error")
              => ~EntriesHaveCalories(file[today])
        /\ (pc[r] \in {"status", "summary"} /\ pc'[r] \in {"input", "push", "done"})
              => LET v == Loaded(today).val
                     es == IF IsList(v) THEN v.list ELSE <<>>
                     c == local'[r].consumed
                     rem == local'[r].remaining
                     K == MaxFrac({c, rem})
                 IN  /\ IsSumOf(c, es)
                     /\ Scale(c, K) + Scale(rem, K) = daily_limit * Pow10(K)
                     /\ file' = file
                     /\ pc[r] = "summary"
                           => out'[r] \cap Tiers =
                                 {IF rem.m < 0 THEN "exceeded"
                                  ELSE IF rem.m < 200 * Pow10(rem.k)
                                       THEN "almost"
                                  ELSE "great"}]_vars

C9_Witness ==
    \E r \in Runs :
        /\ pc[r] = "push" /\ daily_limit = 2000
        /\ local[r].consumed = FromInt(1950)
        /\ local[r].remaining = FromInt(50)
        /\ "almost" \in out[r]

\* The record parse_nutritional_data is to return for the numbers found.
FromNumbers(numbers) ==
    IF Len(numbers) < 4 THEN Raise("ValueError", "parse_nutritional_data")
    ELSE Return(NutritionDict(float(numbers[1]), float(numbers[2]),
                              float(numbers[3]), float(numbers[4])))

\* A left-to-right scan for decimal numbers whose integer part and whose
\* fractional part are both optional: digits [. digits] or . digits
RECURSIVE DecimalNumberSpans(_, _)
DecimalNumberSpans(s, i) ==
    IF i > Len(s) THEN <<>>
    ELSE IF s[i] \in Digits
    THEN <<(<<i, MatchEnd(s, i)>>)>> \o DecimalNumberSpans(s, MatchEnd(s, i) + 1)
    ELSE IF s[i] = "." /\ i + 1 <= Len(s) /\ s[i + 1] \in Digits
    THEN <<(<<i, DigitRunEnd(s, i + 1)>>)>>
            \o DecimalNumberSpans(s, DigitRunEnd(s, i + 1) + 1)
    ELSE DecimalNumberSpans(s, i + 1)

Texts(s, spans) == [n \in DOMAIN spans |-> SubSeq(s, spans[n][1], spans[n][2])]

\* C10 as claimed: the record is built from the first four decimal numbers,
\* integer part optional, that a left-to-right scan finds.
C10_FirstFourDecimalNumbers ==
    parse_result # NotCalled
        => parse_result =
              FromNumbers(Texts(llm_response,
                                DecimalNumberSpans(llm_response, 1)))

AllDigits(s, a, b) == \A p \in a..b : s[p] \in Digits

\* s[a..b] is one or more digits, then optionally a dot and further digits.
DigitLed(s, a, b) ==
    /\ 1 <= a /\ a <= b /\ b <= Len(s)
    /\ \E j \in a..b :
          /\ AllDigits(s, a, j)
          /\ j = b \/ (s[j + 1] = "." /\ AllDigits(s, j + 2, b))

\* spans are the matches of a left-to-right scan of s for digit-led numbers:
\* each is the longest match at its start, they follow one another, and no
\* digit of s lies outside them.
IsScan(s, spans) ==
    /\ \A n \in DOMAIN spans :
          /\ DigitLed(s, spans[n][1], spans[n][2])
          /\ \A b \in (spans[n][2] + 1)..Len(s) : ~DigitLed(s, spans[n][1], b)
    /\ \A n \in 1..(Len(spans) - 1) : spans[n][2] < spans[n + 1][1]
    /\ \A p \in 1..Len(s) :
          s[p] \in Digits
             => \E n \in DOMAIN spans : spans[n][1] <= p /\ p <= spans[n][2]

\* C10: parse_nutritional_data is positional over the digit-led numbers of
\* the reply (one or more digits, then optionally a dot and further digits;
\* a dot or sign in front of the digits is not part of the number): with at
\* least four of them it returns the first four as proteins, carbs, fat and
\* calories and ignores the rest, with fewer it raises ValueError.
C10_FirstFourDigitLedNumbers ==
    parse_result # NotCalled
        => LET spans == re_finditer(llm_response, 1)
           IN  /\ IsScan(llm_response, spans)
               /\ parse_result = FromNumbers(Texts(llm_response, spans))

C10_Witness ==
    /\ parse_result.ok
    /\ Len(re_findall(llm_response)) >= 5
    /\ parse_result.val.dict.calories.float
          # float(re_findall(llm_response)[5])
===========================================================================
